---- MODULE Spec2Model ----
(***************************************************************************)
(* APIDataFetcher of main.py: the retrying POST (_make_request), the       *)
(* response interpreters (_extract_data_from_response,                     *)
(* _detect_pagination_info) and the page loop (fetch_all_data), run        *)
(* against a server whose answer to every POST is chosen freely.           *)
(***************************************************************************)
EXTENDS Integers, Sequences, FiniteSets, TLC

VARIABLES
    requests_json_error,  \* TRUE: response.json() raises a RequestException subclass
    caller,               \* the method the client called on the fetcher
    pc,                   \* position of the running call
    page_size,            \* fetch_all_data argument
    max_pages,            \* fetch_all_data argument
    base_payload,         \* fetch_all_data argument (the caller's dict)
    retries,              \* _make_request argument
    attempt,              \* _make_request loop variable
    payload,              \* _make_request argument
    mr,                   \* how the running _make_request ended
    page,                 \* fetch_all_data local
    pagination_info,      \* fetch_all_data local
    all_data,             \* self.all_data
    result,               \* value returned to the client
    error,                \* exception that reached the client
    requests,             \* the payloads of the requests of the running call, in order
    log,                  \* POSTs and sleeps of the running request, in order
    answer,               \* the server's answer to the latest POST of the request
    transport_failures,   \* POSTs of the running request that failed in transport
    stop,                 \* why fetch_all_data returned
    prev,                 \* what the previous fetch_all_data call handed back
    arg                   \* the body passed to a directly called interpreter

vars == <<requests_json_error, caller, pc, page_size, max_pages, base_payload,
          retries, attempt, payload, mr, page, pagination_info, all_data,
          result, error, requests, log, answer, transport_failures,
          stop, prev, arg>>

(***************************************************************************)
(* Bounds of the model.                                                    *)
(***************************************************************************)
MaxRetries == 3
MaxPageSize == 2
MaxPages == 2
MaxTargets == 2

(***************************************************************************)
(* Program constants.                                                      *)
(***************************************************************************)
DefaultRetries == 3

(***************************************************************************)
(* Decoded JSON values, tagged with their Python type.                     *)
(***************************************************************************)
JNull == [t |-> "null", v |-> 0]
JBool(b) == [t |-> "bool", v |-> b]
JInt(n) == [t |-> "int", v |-> n]
JList(s) == [t |-> "list", v |-> s]
JMap(f) == [t |-> "map", v |-> f]
JObj(i) == [t |-> "obj", v |-> i]
\* a non-empty string, known by the field names that occur in it as substrings
JStr(has) == [t |-> "str", v |-> has]

EmptyMap == [k \in {} |-> JNull]

\* bool(x) as `not x` and `if x` evaluate it
Truthy(x) ==
    CASE x.t = "null" -> FALSE
      [] x.t = "bool" -> x.v
      [] x.t = "int" -> x.v # 0
      [] x.t = "list" -> Len(x.v) > 0
      [] x.t = "map" -> DOMAIN x.v # {}
      [] OTHER -> TRUE

\* `x in response` raises TypeError unless response is a container
IsContainer(x) == x.t \in {"list", "map", "obj"}

HasKey(response, field) ==
    response.t = "map" /\ field \in DOMAIN response.v

Returned(v) == [raised |-> FALSE, value |-> v]
Raised(e) == [raised |-> TRUE, value |-> e]

(***************************************************************************)
(* _prepare_pagination_payload                                             *)
(***************************************************************************)
\* C20 mutant: page indexes are sent zero-based
_prepare_pagination_payload_zero_based(bp, pg, ps) ==
    IF pg = 0
    THEN bp
    ELSE [k \in DOMAIN bp \cup {"page", "limit"} |->
            IF k = "page" THEN pg - 1
            ELSE IF k = "limit" THEN ps
            ELSE bp[k]]

\* C14 mutant: no copy is taken, page and limit are stored in the caller's dict
CallerDictAliased(bp, pg, ps) ==
    IF pg = 0
    THEN bp
    ELSE [k \in DOMAIN bp \cup {"page", "limit"} |->
            IF k = "page" THEN pg
            ELSE IF k = "limit" THEN ps
            ELSE bp[k]]

\* the caller's dict after the call: `payload = base_payload.copy()` makes the
\* stores of page and limit go to the copy
CallerDictAfterPrepare(bp, pg, ps) == bp

_prepare_pagination_payload(bp, pg, ps) ==
    IF pg = 0
    THEN bp
    ELSE [k \in DOMAIN bp \cup {"page", "limit"} |->
            IF k = "page" THEN pg
            ELSE IF k = "limit" THEN ps
            ELSE bp[k]]

(***************************************************************************)
(* _extract_data_from_response                                             *)
(***************************************************************************)
data_fields == <<"data", "results", "items", "users", "records", "content">>

\* C11 mutant: the loop has no early return, the last array found wins
ExtractScanLastWins(response, i) ==
    LET S == {j \in i..Len(data_fields) :
                 HasKey(response, data_fields[j]) /\ response.v[data_fields[j]].t = "list"}
    IN  IF S = {}
        THEN <<response>>
        ELSE response.v[data_fields[CHOOSE j \in S : \A k \in S : k <= j]].v

RECURSIVE ExtractScan(_, _)
ExtractScan(response, i) ==
    IF i > Len(data_fields)
    THEN <<response>>
    ELSE IF HasKey(response, data_fields[i]) /\ response.v[data_fields[i]].t = "list"
         THEN response.v[data_fields[i]].v
         ELSE ExtractScan(response, i + 1)

\* on a string `field in response` is a substring test and response[field] raises
_extract_data_from_response(response) ==
    IF response.t = "list" THEN Returned(response.v)
    ELSE IF response.t = "str"
         THEN IF \E i \in 1..Len(data_fields) : data_fields[i] \in response.v
              THEN Raised("TypeError")
              ELSE Returned(<<>>)
    ELSE IF ~IsContainer(response) THEN Raised("TypeError")
    ELSE Returned(ExtractScan(response, 1))

(***************************************************************************)
(* _detect_pagination_info                                                 *)
(***************************************************************************)
pagination_fields ==
    [total_pages |-> <<"totalPages", "total_pages", "pageCount", "pages">>,
     total_records |-> <<"totalRecords", "total", "totalCount", "count", "totalElements">>,
     current_page |-> <<"currentPage", "page", "pageNumber">>,
     page_size |-> <<"pageSize", "limit", "size", "perPage">>,
     has_more |-> <<"hasMore", "has_more", "hasNext", "has_next">>]

\* C19 mutant: has_more starts as None like the other fields
InitialPaginationInfoNoDefault ==
    [has_pagination |-> FALSE,
     total_pages |-> JNull,
     total_records |-> JNull,
     current_page |-> JNull,
     page_size |-> JNull,
     has_more |-> JNull]

InitialPaginationInfo ==
    [has_pagination |-> FALSE,
     total_pages |-> JNull,
     total_records |-> JNull,
     current_page |-> JNull,
     page_size |-> JNull,
     has_more |-> JBool(FALSE)]

\* the inner loop over one group's candidate fields, from candidate i on
RECURSIVE DetectScan(_, _, _, _)
DetectScan(response, fields, i, cur) ==
    IF i > Len(fields)
    THEN cur
    ELSE DetectScan(response, fields, i + 1,
                    IF HasKey(response, fields[i]) THEN response.v[fields[i]] ELSE cur)

\* C13 mutant: only the first candidate of each group is looked for
AnyPaginationFieldFirstCandidate(response) ==
    \E key \in DOMAIN pagination_fields : HasKey(response, pagination_fields[key][1])

AnyPaginationField(response) ==
    \E key \in DOMAIN pagination_fields :
        \E i \in 1..Len(pagination_fields[key]) :
            HasKey(response, pagination_fields[key][i])

_detect_pagination_info(response) ==
    IF response.t = "list" THEN Returned(InitialPaginationInfo)
    ELSE IF response.t = "str"
         THEN IF \E key \in DOMAIN pagination_fields :
                     \E i \in 1..Len(pagination_fields[key]) :
                         pagination_fields[key][i] \in response.v
              THEN Raised("TypeError")
              ELSE Returned(InitialPaginationInfo)
    ELSE IF ~IsContainer(response) THEN Raised("TypeError")
    ELSE Returned(
        [has_pagination |-> AnyPaginationField(response),
         total_pages |-> DetectScan(response, pagination_fields.total_pages, 1,
                                    InitialPaginationInfo.total_pages),
         total_records |-> DetectScan(response, pagination_fields.total_records, 1,
                                      InitialPaginationInfo.total_records),
         current_page |-> DetectScan(response, pagination_fields.current_page, 1,
                                     InitialPaginationInfo.current_page),
         page_size |-> DetectScan(response, pagination_fields.page_size, 1,
                                  InitialPaginationInfo.page_size),
         has_more |-> DetectScan(response, pagination_fields.has_more, 1,
                                 InitialPaginationInfo.has_more)])

(***************************************************************************)
(* The server: what one POST can come back with.                           *)
(***************************************************************************)
\* pages of up to MaxPageSize records r1, r2, r1, ... and one page that holds the
\* same record twice
RecordLists ==
    {[i \in 1..n |-> JObj(1 + ((i - 1) % 2))] : n \in 0..MaxPageSize}
        \cup {<<JObj(1), JObj(1)>>}

Opt(S) == {<<>>} \cup {<<x>> : x \in S}

\* a mapping body with optional data, hasMore and totalPages keys
MapBody(d, h, tp) ==
    JMap([k \in (IF d = <<>> THEN {} ELSE {"data"})
                   \cup (IF h = <<>> THEN {} ELSE {"hasMore"})
                   \cup (IF tp = <<>> THEN {} ELSE {"totalPages"}) |->
            IF k = "data" THEN JList(d[1])
            ELSE IF k = "hasMore" THEN JBool(h[1])
            ELSE JInt(tp[1])])

\* the (hasMore, totalPages) combinations the server sends along with data
PaginationKeys ==
    {<<h, <<>>>> : h \in Opt(BOOLEAN)}
        \cup {<<<<>>, <<1>>>>}
        \cup {<<<<TRUE>>, <<tp>>>> : tp \in 1..MaxPages}

Bodies ==
    {JList(l) : l \in RecordLists}
        \cup {MapBody(<<l>>, pk[1], pk[2]) : l \in RecordLists, pk \in PaginationKeys}
        \cup {MapBody(<<>>, h, <<>>) : h \in {<<>>, <<TRUE>>}}
        \cup {JNull, JInt(0), JInt(7)}

FailureKinds == {"transport", "http401", "status", "notjson"}

ServerAnswers ==
    {[k |-> "ok", body |-> b] : b \in Bodies}
        \cup {[k |-> f, body |-> JNull] : f \in FailureKinds}

NoAnswer == [k |-> "none", body |-> JNull]

BasePayload == [k \in {"targets"} |-> [i \in 1..MaxTargets |-> i]]

NoResult == [t |-> "none", v |-> 0]
NoPrev == [result |-> NoResult, capped |-> FALSE]

(***************************************************************************)
(* _make_request                                                           *)
(***************************************************************************)
\* C2 mutant: the except clause catches connection errors and timeouts only
CaughtTransportOnly(kind) == kind = "transport"

\* the exceptions `except requests.exceptions.RequestException` catches
Caught(kind) ==
    \/ kind \in {"transport", "http401", "status"}
    \/ kind = "notjson" /\ requests_json_error

\* C5 mutant: the bound of the test is off by one (`attempt < retries`)
SleepsAndRetriesOffByOne(a, r) == a < r

\* `if attempt < retries - 1` : sleep and go round again, else re-raise
SleepsAndRetries(a, r) == a < r - 1

\* C4 mutant: the delay is 2 * attempt instead of 2 ** attempt
BackoffDelayLinear(a) == 2 * a

\* time.sleep(2 ** attempt)
BackoffDelay(a) == 2 ^ a

\* C3 mutant: the last failed attempt is swallowed and None comes back
OnCaughtReturnsNone(a, r, kind) ==
    IF a < r - 1
    THEN [pc |-> "backoff", mr |-> [raised |-> FALSE, value |-> JNull]]
    ELSE [pc |-> "mr_done", mr |-> [raised |-> FALSE, value |-> JNull]]

\* what the loop does with an exception the except clause caught
OnCaught(a, r, kind) ==
    IF SleepsAndRetries(a, r)
    THEN [pc |-> "backoff", mr |-> Returned(JNull)]
    ELSE [pc |-> "mr_done", mr |-> Raised(kind)]

\* one pass through the try block for a given server answer
AttemptOutcome(a, r, ans) ==
    IF ans.k = "ok"
    THEN [pc |-> "mr_done", mr |-> Returned(ans.body)]
    ELSE IF Caught(ans.k)
         THEN OnCaught(a, r, ans.k)
         ELSE [pc |-> "mr_done", mr |-> Raised(ans.k)]

\* entering _make_request(p, r): `for attempt in range(retries)`
EnterMakeRequest(reqs, p, r) ==
    /\ payload' = p
    /\ retries' = r
    /\ attempt' = 0
    /\ requests' = Append(reqs, p)
    /\ answer' = NoAnswer
    /\ transport_failures' = 0
    /\ mr' = Returned(JNull)
    /\ pc' = IF r > 0 THEN "post" ELSE "mr_done"

session_post(ans) ==
    /\ pc = "post"
    /\ log' = Append(log, [e |-> "post", attempt |-> attempt])
    /\ answer' = ans
    /\ transport_failures' = transport_failures + (IF ans.k = "transport" THEN 1 ELSE 0)
    /\ pc' = AttemptOutcome(attempt, retries, ans).pc
    /\ mr' = AttemptOutcome(attempt, retries, ans).mr
    /\ UNCHANGED <<requests_json_error, caller, page_size, max_pages, base_payload,
                   retries, attempt, payload, page, pagination_info, all_data,
                   result, error, requests, stop, prev, arg>>

backoff_sleep ==
    /\ pc = "backoff"
    /\ log' = Append(log, [e |-> "backoff", d |-> BackoffDelay(attempt)])
    /\ attempt' = attempt + 1
    /\ pc' = IF attempt + 1 < retries THEN "post" ELSE "mr_done"
    /\ UNCHANGED <<requests_json_error, caller, page_size, max_pages, base_payload,
                   retries, payload, mr, page, pagination_info, all_data,
                   result, error, requests, answer, transport_failures, stop, prev, arg>>

\* a client calls _make_request itself, with its own retries
call_make_request(r) ==
    /\ pc = "idle"
    /\ caller' = "_make_request"
    /\ log' = <<>>
    /\ EnterMakeRequest(<<>>, BasePayload, r)
    /\ UNCHANGED <<requests_json_error, page_size, max_pages, base_payload, page,
                   pagination_info, all_data, result, error, stop, prev, arg>>

make_request_done ==
    /\ pc = "mr_done"
    /\ caller = "_make_request"
    /\ IF mr.raised
       THEN pc' = "raised" /\ error' = mr.value /\ UNCHANGED result
       ELSE pc' = "returned" /\ result' = mr.value /\ UNCHANGED error
    /\ UNCHANGED <<requests_json_error, caller, page_size, max_pages, base_payload,
                   retries, attempt, payload, mr, page, pagination_info, all_data,
                   requests, log, answer, transport_failures, stop, prev, arg>>

(***************************************************************************)
(* fetch_all_data                                                          *)
(***************************************************************************)
\* the number a comparison `page >= x` sees in x
Numeric(x) == IF x.t = "bool" THEN (IF x.v THEN 1 ELSE 0) ELSE x.v

Step(next, data, info, why) ==
    [next |-> next, all_data |-> data, info |-> info, why |-> why]

\* C16 mutant: the first response is judged by its length alone
FirstResponseLengthOnly(response, ps, data0, info0) ==
    LET ex == _extract_data_from_response(response)
        det == _detect_pagination_info(response)
    IN  IF response.t = "null" THEN Step("return_empty", data0, info0, "no_response")
        ELSE IF ex.raised THEN Step("raise", data0, info0, ex.value)
        ELSE IF det.raised THEN Step("raise", data0, info0, det.value)
        ELSE IF Len(ex.value) < ps
             THEN Step("return", data0 \o ex.value, det.value, "first_complete")
             ELSE Step("loop", data0 \o ex.value, det.value, "none")

\* lines 137-154: what the first response leads to
FirstResponse(response, ps, data0, info0) ==
    LET ex == _extract_data_from_response(response)
        det == _detect_pagination_info(response)
    IN  IF response.t = "null" THEN Step("return_empty", data0, info0, "no_response")
        ELSE IF ex.raised THEN Step("raise", data0, info0, ex.value)
        ELSE IF det.raised THEN Step("raise", data0, info0, det.value)
        ELSE IF ~det.value.has_pagination \/ Len(ex.value) < ps
             THEN Step("return", data0 \o ex.value, det.value, "first_complete")
             ELSE Step("loop", data0 \o ex.value, det.value, "none")

\* C18 mutant: `while True`, the page cap is gone
PageLoopContinuesAlways(pg, mp) == TRUE

\* `while page < max_pages`
PageLoopContinues(pg, mp) == pg < mp

\* C21 mutant: the total page count is compared with > and one page too many is read
PaginationCheckOffByOne(info, pg, data) ==
    IF info.has_more.t = "bool" /\ info.has_more.v = FALSE
    THEN Step("return", data, info, "has_more_false")
    ELSE IF Truthy(info.total_pages)
         THEN IF info.total_pages.t \notin {"int", "bool"}
              THEN Step("raise", data, info, "TypeError")
              ELSE IF pg > Numeric(info.total_pages)
                   THEN Step("return", data, info, "total_pages")
                   ELSE Step("loop", data, info, "none")
         ELSE Step("loop", data, info, "none")

\* lines 183-191: the stopping checks made on a full page
PaginationCheck(info, pg, data) ==
    IF info.has_more.t = "bool" /\ info.has_more.v = FALSE
    THEN Step("return", data, info, "has_more_false")
    ELSE IF Truthy(info.total_pages)
         THEN IF info.total_pages.t \notin {"int", "bool"}
              THEN Step("raise", data, info, "TypeError")
              ELSE IF pg >= Numeric(info.total_pages)
                   THEN Step("return", data, info, "total_pages")
                   ELSE Step("loop", data, info, "none")
         ELSE Step("loop", data, info, "none")

\* C17 mutant: the length test comes before the extend, a short page is dropped
PageResponseDropsShortPage(response, pg, ps, data0, info0) ==
    LET ex == _extract_data_from_response(response)
        det == _detect_pagination_info(response)
    IN  IF ~Truthy(response) THEN Step("return", data0, info0, "no_response")
        ELSE IF ex.raised THEN Step("raise", data0, info0, ex.value)
        ELSE IF Len(ex.value) < ps
             THEN Step("return", data0, info0, "short_page")
        ELSE IF det.raised THEN Step("raise", data0 \o ex.value, info0, det.value)
        ELSE PaginationCheck(det.value, pg, data0 \o ex.value)

\* lines 165-191: what the response to a page request leads to
PageResponse(response, pg, ps, data0, info0) ==
    LET ex == _extract_data_from_response(response)
        det == _detect_pagination_info(response)
    IN  IF ~Truthy(response) THEN Step("return", data0, info0, "no_response")
        ELSE IF ex.raised THEN Step("raise", data0, info0, ex.value)
        ELSE IF Len(ex.value) = 0 THEN Step("return", data0, info0, "empty_page")
        ELSE IF Len(ex.value) < ps
             THEN Step("return", data0 \o ex.value, info0, "short_page")
        ELSE IF det.raised THEN Step("raise", data0 \o ex.value, info0, det.value)
        ELSE PaginationCheck(det.value, pg, data0 \o ex.value)

\* the effect of a step of fetch_all_data on its own state and on the client
Apply(st) ==
    /\ all_data' = st.all_data
    /\ pagination_info' = st.info
    /\ CASE st.next = "return" ->
                pc' = "returned" /\ result' = JList(st.all_data) /\ stop' = st.why
                /\ UNCHANGED error
         [] st.next = "return_empty" ->
                pc' = "returned" /\ result' = JList(<<>>) /\ stop' = st.why
                /\ UNCHANGED error
         [] st.next = "raise" ->
                pc' = "raised" /\ error' = st.why /\ UNCHANGED <<result, stop>>
         [] OTHER ->
                pc' = "loop" /\ UNCHANGED <<result, error, stop>>

fetch_all_data(ps, mp) ==
    /\ pc = "idle"
    /\ caller' = "fetch_all_data"
    /\ page_size' = ps
    /\ max_pages' = mp
    /\ base_payload' = CallerDictAfterPrepare(BasePayload, 0, ps)
    /\ all_data' = <<>>
    /\ page' = 0
    /\ log' = <<>>
    /\ EnterMakeRequest(<<>>, _prepare_pagination_payload(BasePayload, 0, ps),
                        DefaultRetries)
    /\ UNCHANGED <<requests_json_error, pagination_info, result, error, stop, prev, arg>>

fetch_first_response ==
    /\ pc = "mr_done"
    /\ caller = "fetch_all_data"
    /\ page = 0
    /\ ~mr.raised
    /\ Apply(FirstResponse(mr.value, page_size, all_data, pagination_info))
    /\ UNCHANGED <<requests_json_error, caller, page_size, max_pages, base_payload,
                   retries, attempt, payload, mr, page, requests, log, answer,
                   transport_failures, prev, arg>>

\* C15 mutant: the loop goes to the next request without sleeping
RateLimitSkipped == <<>>

\* time.sleep(0.5) at the top of the loop body
RateLimit == <<[e |-> "throttle"]>>

fetch_next_page ==
    /\ pc = "loop"
    /\ PageLoopContinues(page, max_pages)
    /\ page <= MaxPages    \* page never passes max_pages, which is MaxPages at most
    /\ page' = page + 1
    /\ log' = RateLimit
    /\ EnterMakeRequest(requests,
                        _prepare_pagination_payload(base_payload, page + 1, page_size),
                        DefaultRetries)
    /\ base_payload' = CallerDictAfterPrepare(base_payload, page + 1, page_size)
    /\ UNCHANGED <<requests_json_error, caller, page_size, max_pages,
                   pagination_info, all_data, result, error, stop, prev, arg>>

fetch_loop_exit ==
    /\ pc = "loop"
    /\ ~PageLoopContinues(page, max_pages)
    /\ pc' = "returned"
    /\ result' = JList(all_data)
    /\ stop' = "max_pages"
    /\ UNCHANGED <<requests_json_error, caller, page_size, max_pages, base_payload,
                   retries, attempt, payload, mr, page, pagination_info, all_data,
                   error, requests, log, answer, transport_failures, prev, arg>>

fetch_page_response ==
    /\ pc = "mr_done"
    /\ caller = "fetch_all_data"
    /\ page > 0
    /\ ~mr.raised
    /\ Apply(PageResponse(mr.value, page, page_size, all_data, pagination_info))
    /\ UNCHANGED <<requests_json_error, caller, page_size, max_pages, base_payload,
                   retries, attempt, payload, mr, page, requests, log, answer,
                   transport_failures, prev, arg>>

\* no try/except in fetch_all_data: what _make_request raises reaches the client
fetch_propagate ==
    /\ pc = "mr_done"
    /\ caller = "fetch_all_data"
    /\ mr.raised
    /\ pc' = "raised"
    /\ error' = mr.value
    /\ UNCHANGED <<requests_json_error, caller, page_size, max_pages, base_payload,
                   retries, attempt, payload, mr, page, pagination_info, all_data,
                   result, requests, log, answer, transport_failures, stop, prev, arg>>

\* the client calls fetch_all_data once more on the same fetcher, same arguments
fetch_all_data_again ==
    /\ pc = "returned"
    /\ caller = "fetch_all_data"
    /\ prev.result.t = "none"
    /\ prev' = [result |-> result, capped |-> (stop = "max_pages")]
    /\ all_data' = <<>>
    /\ page' = 0
    /\ log' = <<>>
    /\ result' = NoResult
    /\ stop' = "none"
    /\ pagination_info' = InitialPaginationInfo
    /\ EnterMakeRequest(<<>>, _prepare_pagination_payload(base_payload, 0, page_size),
                        DefaultRetries)
    /\ base_payload' = CallerDictAfterPrepare(base_payload, 0, page_size)
    /\ UNCHANGED <<requests_json_error, caller, page_size, max_pages, error, arg>>

\* shapes that are neither an array nor a mapping
OtherShapes == {JNull, JInt(7), JBool(TRUE), JStr({}), JStr({"data"}), JStr({"hasMore"})}

(***************************************************************************)
(* The interpreters called on their own.                                   *)
(***************************************************************************)
\* bodies holding any subset of each group's first and last candidate key; a key's
\* value tells which candidate of its group it is
InterpKeys ==
    UNION {{pagination_fields[g][1], pagination_fields[g][Len(pagination_fields[g])]} :
               g \in DOMAIN pagination_fields}

KeyValue(key) ==
    LET g == CHOOSE g \in DOMAIN pagination_fields :
                 \E i \in 1..Len(pagination_fields[g]) : pagination_fields[g][i] = key
        i == CHOOSE i \in 1..Len(pagination_fields[g]) : pagination_fields[g][i] = key
    IN  IF g = "has_more" THEN JBool(i = 1) ELSE JInt(i)

InterpBodies ==
    {JMap([k \in K |-> KeyValue(k)]) : K \in SUBSET InterpKeys}
        \cup {JList(l) : l \in RecordLists}
        \cup OtherShapes

\* mappings holding any of the first, second and last data field, each either with
\* an array of its own or with a number
ExtractKeys == {data_fields[1], data_fields[2], data_fields[Len(data_fields)]}

ExtractKeyIndex(key) == CHOOSE i \in 1..Len(data_fields) : data_fields[i] = key

ExtractBodies ==
    {JMap([k \in K |-> IF k \in L THEN JList(<<JObj(ExtractKeyIndex(k))>>)
                                   ELSE JInt(ExtractKeyIndex(k))]) :
         K \in SUBSET ExtractKeys, L \in SUBSET ExtractKeys}
        \cup {JList(l) : l \in RecordLists}
        \cup OtherShapes

call_extract_data_from_response(body) ==
    /\ pc = "idle"
    /\ caller' = "_extract_data_from_response"
    /\ arg' = body
    /\ IF _extract_data_from_response(body).raised
       THEN pc' = "raised" /\ error' = _extract_data_from_response(body).value
            /\ UNCHANGED result
       ELSE pc' = "returned" /\ result' = JList(_extract_data_from_response(body).value)
            /\ UNCHANGED error
    /\ UNCHANGED <<requests_json_error, page_size, max_pages, base_payload, retries,
                   attempt, payload, mr, page, pagination_info, all_data, requests,
                   log, answer, transport_failures, stop, prev>>

call_detect_pagination_info(body) ==
    /\ pc = "idle"
    /\ caller' = "_detect_pagination_info"
    /\ arg' = body
    /\ IF _detect_pagination_info(body).raised
       THEN pc' = "raised" /\ error' = _detect_pagination_info(body).value
            /\ UNCHANGED result
       ELSE pc' = "returned" /\ result' = _detect_pagination_info(body).value
            /\ UNCHANGED error
    /\ UNCHANGED <<requests_json_error, page_size, max_pages, base_payload, retries,
                   attempt, payload, mr, page, pagination_info, all_data, requests,
                   log, answer, transport_failures, stop, prev>>

(***************************************************************************)
(* The specification.                                                      *)
(***************************************************************************)
Init ==
    /\ requests_json_error \in BOOLEAN
    /\ caller = "none"
    /\ pc = "idle"
    /\ page_size = 0
    /\ max_pages = 0
    /\ base_payload = BasePayload
    /\ retries = 0
    /\ attempt = 0
    /\ payload = BasePayload
    /\ mr = Returned(JNull)
    /\ page = 0
    /\ pagination_info = InitialPaginationInfo
    /\ all_data = <<>>
    /\ result = NoResult
    /\ error = "none"
    /\ requests = <<>>
    /\ log = <<>>
    /\ answer = NoAnswer
    /\ transport_failures = 0
    /\ stop = "none"
    /\ prev = NoPrev
    /\ arg = JNull

Next ==
    \/ \E ps \in 1..MaxPageSize, mp \in 1..MaxPages : fetch_all_data(ps, mp)
    \/ \E r \in 0..MaxRetries : call_make_request(r)
    \/ \E ans \in ServerAnswers : session_post(ans)
    \/ backoff_sleep
    \/ make_request_done
    \/ fetch_first_response
    \/ fetch_next_page
    \/ fetch_loop_exit
    \/ fetch_page_response
    \/ fetch_propagate
    \/ \E body \in InterpBodies : call_detect_pagination_info(body)
    \/ \E body \in ExtractBodies : call_extract_data_from_response(body)

Spec == Init /\ [][Next]_vars

\* two fetch_all_data calls in a row on one fetcher, against a server that answers
\* every POST with a 2xx status and a JSON body
InitTwoCalls == Init /\ requests_json_error

NextTwoCalls ==
    \/ \E ps \in 1..MaxPageSize, mp \in 1..MaxPages : fetch_all_data(ps, mp)
    \/ \E b \in Bodies : session_post([k |-> "ok", body |-> b])
    \/ fetch_first_response
    \/ fetch_next_page
    \/ fetch_loop_exit
    \/ fetch_page_response
    \/ fetch_all_data_again

\* one thread runs the client: a step that can be taken is taken, every POST is
\* answered or times out (timeout=30), every sleep ends
SpecFair == Init /\ [][Next]_vars /\ WF_vars(Next)

SpecTwoCalls == InitTwoCalls /\ [][NextTwoCalls]_vars

(***************************************************************************)
(* Vocabulary of the properties.                                           *)
(***************************************************************************)
IsPost(ev) == ev.e = "post"
IsBackoff(ev) == ev.e = "backoff"

NumPosts == Len(SelectSeq(log, IsPost))

\* the running request's POSTs and backoff sleeps, without the throttle before it
RequestLog == IF log # <<>> /\ log[1].e = "throttle" THEN Tail(log) ELSE log

\* f failed attempts, each followed by its backoff sleep, then one more attempt
ExpectedLog(f) ==
    [i \in 1..(2 * f + 1) |->
        IF i % 2 = 1
        THEN [e |-> "post", attempt |-> (i - 1) \div 2]
        ELSE [e |-> "backoff", d |-> 2 ^ ((i \div 2) - 1)]]

RequestOver == pc \notin {"idle", "post", "backoff"}

NoDuplicates(seq) == \A i, j \in 1..Len(seq) : i < j => seq[i] # seq[j]

RECURSIVE Concat(_)
Concat(ss) == IF ss = <<>> THEN <<>> ELSE Head(ss) \o Concat(Tail(ss))

Ceil(n, b) == (n + b - 1) \div b

Min(S) == CHOOSE x \in S : \A y \in S : x <= y

(***************************************************************************)
(* C1: a POST answered with HTTP 401 ends the request at once: no backoff  *)
(* sleep and no further POST follow it.                                    *)
(***************************************************************************)
C1_Http401NeverRetried ==
    answer.k = "http401" => pc \notin {"backoff", "post"}

(***************************************************************************)
(* C2, as the spec states it: a POST answered with a non-success status    *)
(* other than 401 ends the request at once, with no backoff sleep and no   *)
(* further POST.                                                           *)
(***************************************************************************)
C2_StatusNeverRetried ==
    answer.k = "status" => pc \notin {"backoff", "post"}

(***************************************************************************)
(* C2, amended: a non-success status other than 401 is retried like a      *)
(* transport failure. While attempts remain it is followed by the backoff  *)
(* sleep of that attempt and another POST; it makes the call fail only     *)
(* when it answers the last of the `retries` attempts.                     *)
(***************************************************************************)
C2_StatusRetriedLikeTransport ==
    answer.k = "status" =>
        \/ pc = "backoff" /\ attempt < retries - 1 /\ log[Len(log)].e = "post"
        \/ pc = "post" /\ attempt < retries
              /\ log[Len(log)] = [e |-> "backoff", d |-> 2 ^ (attempt - 1)]
        \/ pc \in {"mr_done", "raised"} /\ attempt = retries - 1
              /\ mr = Raised("status") /\ NumPosts = retries

C2_Witness_StatusRetried ==
    answer.k = "status" /\ pc = "post" /\ attempt = 1

(***************************************************************************)
(* C3: once a request of fetch_all_data has ended in failure (401, another *)
(* status, transport failures to the end of the retry budget, a body that  *)
(* is not JSON), the call does not go on and returns nothing: it ends with *)
(* the error, whatever all_data holds by then.                             *)
(***************************************************************************)
C3_FailureEndsTheCall ==
    (caller = "fetch_all_data" /\ RequestOver /\ answer.k \in FailureKinds) =>
        /\ pc \in {"mr_done", "raised"}
        /\ mr.raised
        /\ result = NoResult
        /\ pc = "raised" => error = answer.k

C3_Witness_FailsAfterPages ==
    /\ caller = "fetch_all_data"
    /\ pc = "raised"
    /\ page = 2
    /\ Len(all_data) >= 2
    /\ answer.k = "http401"
    /\ result = NoResult

(***************************************************************************)
(* C4: when the f POSTs before a successful one all failed in transport    *)
(* (0 <= f < retries), the request made exactly f+1 POSTs, slept once      *)
(* between consecutive POSTs, for 2^0, 2^1, ..., 2^(f-1) seconds in that   *)
(* order, and _make_request returns the body of the last POST.             *)
(***************************************************************************)
C4_BackoffThenSuccess ==
    (answer.k = "ok" /\ transport_failures = attempt) =>
        /\ attempt < retries
        /\ NumPosts = attempt + 1
        /\ RequestLog = ExpectedLog(attempt)
        /\ pc = "mr_done" => mr = Returned(answer.body)
        /\ (caller = "_make_request" /\ RequestOver) =>
               (pc \in {"mr_done", "returned"} /\ (pc = "returned" => result = answer.body))

C4_Witness_TwoFailuresThenSuccess ==
    /\ caller = "_make_request"
    /\ pc = "returned"
    /\ retries = 3
    /\ transport_failures = 2
    /\ answer.k = "ok"
    /\ answer.body.t = "map"
    /\ SelectSeq(log, IsBackoff) = <<[e |-> "backoff", d |-> 1], [e |-> "backoff", d |-> 2]>>

(***************************************************************************)
(* C5: a request never makes more than `retries` POSTs; when every POST    *)
(* failed in transport the request ends after exactly `retries` POSTs, by  *)
(* raising, with no sleep after the last POST; and no POST follows a       *)
(* successful one.                                                         *)
(***************************************************************************)
C5_RetryBudget ==
    /\ NumPosts <= retries
    /\ (RequestOver /\ answer.k = "transport" /\ transport_failures = NumPosts) =>
           /\ NumPosts = retries
           /\ pc \in {"mr_done", "raised"}
           /\ mr = Raised("transport")
           /\ log[Len(log)].e = "post"
           /\ result = NoResult
    /\ answer.k = "ok" => (RequestOver /\ log[Len(log)].e = "post")

C5_Witness_AllAttemptsFail ==
    /\ pc = "raised"
    /\ retries = DefaultRetries
    /\ transport_failures = DefaultRetries
    /\ error = "transport"

(***************************************************************************)
(* C6: the list fetch_all_data returns holds no record twice and keeps the *)
(* records in first-seen order.                                            *)
(***************************************************************************)
C6_ResultHasNoDuplicates ==
    (caller = "fetch_all_data" /\ pc = "returned") => NoDuplicates(result.v)

(***************************************************************************)
(* C7: one fetch_all_data call issues at most max_pages requests, the      *)
(* first (unpaged) one included.                                           *)
(***************************************************************************)
C7_AtMostMaxPagesRequests ==
    caller = "fetch_all_data" => Len(requests) <= max_pages

(***************************************************************************)
(* C8: two fetch_all_data calls that hand back the same records, one       *)
(* stopped by the max_pages limit and one by the server's end-of-data      *)
(* signal, cannot happen: equal results stopped for the same reason.       *)
(***************************************************************************)
C8_CappedResultDistinguishable ==
    (caller = "fetch_all_data" /\ pc = "returned" /\ prev.result.t = "list"
        /\ prev.result.v = result.v) =>
        (prev.capped <=> (stop = "max_pages"))

(***************************************************************************)
(* C9: every request carries between 1 and page_size targets, and a call   *)
(* that returned issued ceil(N / page_size) requests whose targets,        *)
(* concatenated in request order, are the N targets of the base payload.   *)
(***************************************************************************)
C9_TargetsAreChunked ==
    caller = "fetch_all_data" =>
        /\ \A i \in 1..Len(requests) :
               Len(requests[i].targets) >= 1 /\ Len(requests[i].targets) <= page_size
        /\ pc = "returned" =>
               /\ Len(requests) = Ceil(Len(base_payload.targets), page_size)
               /\ Concat([i \in 1..Len(requests) |-> requests[i].targets])
                      = base_payload.targets

(***************************************************************************)
(* C10: for each of the five groups, when the body holds candidate keys of *)
(* the group, _detect_pagination_info reports the value of the first of    *)
(* them in the group's listed order.                                       *)
(***************************************************************************)
C10_FirstMatchWins ==
    (caller = "_detect_pagination_info" /\ pc = "returned" /\ arg.t = "map") =>
        \A g \in DOMAIN pagination_fields :
            LET fields == pagination_fields[g]
                present == {i \in 1..Len(fields) : fields[i] \in DOMAIN arg.v}
            IN  present # {} => result[g] = arg.v[fields[Min(present)]]


(***************************************************************************)
(* C11..C13: the two response interpreters called on their own             *)
(***************************************************************************)
ExtractReturned == caller = "_extract_data_from_response" /\ pc = "returned"

DataKeysInOrder == <<"data", "results", "items", "users", "records", "content">>

\* the record keys of a mapping, as positions in the documented order
PresentAt(body) == {i \in 1..Len(DataKeysInOrder) : DataKeysInOrder[i] \in DOMAIN body.v}

ListAt(body) == {i \in PresentAt(body) : body.v[DataKeysInOrder[i]].t = "list"}

\* C11 as stated: for a mapping body the extractor returns the value under the
\* first record key that is present, and a one-element list holding the mapping
\* when none is present.
C11_FirstPresentKey ==
    (ExtractReturned /\ arg.t = "map") =>
        IF PresentAt(arg) = {}
        THEN result = JList(<<arg>>)
        ELSE result = arg.v[DataKeysInOrder[Min(PresentAt(arg))]]

\* C11: for a mapping body the extractor returns the value under the first
\* record key, in the order data, results, items, users, records, content, that
\* is present and holds an array; when no record key holds an array it returns
\* a one-element list holding the whole mapping.
C11_FirstListValuedKey ==
    (caller = "_extract_data_from_response" /\ arg.t = "map") =>
        /\ pc = "returned"
        /\ IF ListAt(arg) = {}
           THEN result = JList(<<arg>>)
           ELSE result = arg.v[DataKeysInOrder[Min(ListAt(arg))]]

C11_Witness_SkipsNonList ==
    /\ ExtractReturned
    /\ arg.t = "map"
    /\ DOMAIN arg.v = {"data", "results", "content"}
    /\ arg.v["data"].t = "int"
    /\ arg.v["results"].t = "list"
    /\ arg.v["content"].t = "list"
    /\ result = arg.v["results"]


\* C12: response interpretation never fails: for every decoded JSON body, an
\* array, a mapping or any other shape such as a string, a number or a boolean,
\* both _extract_data_from_response and _detect_pagination_info return a value
\* and raise no error.
C12_InterpretersNeverRaise ==
    (caller \in {"_extract_data_from_response", "_detect_pagination_info"}) =>
        pc # "raised"


DetectReturned == caller = "_detect_pagination_info" /\ pc = "returned"

CandidateKeys ==
    {"totalPages", "total_pages", "pageCount", "pages",
     "totalRecords", "total", "totalCount", "count", "totalElements",
     "currentPage", "page", "pageNumber",
     "pageSize", "limit", "size", "perPage",
     "hasMore", "has_more", "hasNext", "has_next"}

\* C13: _detect_pagination_info reports has_pagination = true exactly when the
\* body is a mapping that contains at least one candidate key of any of the five
\* groups; an array body always yields has_pagination = false with every other
\* field at its default.
C13_HasPaginationIffCandidateKey ==
    DetectReturned =>
        /\ result.has_pagination <=>
               (arg.t = "map" /\ DOMAIN arg.v \cap CandidateKeys # {})
        /\ arg.t = "list" =>
               result = [has_pagination |-> FALSE, total_pages |-> JNull,
                         total_records |-> JNull, current_page |-> JNull,
                         page_size |-> JNull, has_more |-> JBool(FALSE)]

C13_Witness_LastCandidateOnly ==
    /\ DetectReturned
    /\ arg.t = "map"
    /\ DOMAIN arg.v = {"pages"}
    /\ result.has_pagination

(***************************************************************************)
(* C14..C20: the paging loop of fetch_all_data                             *)
(***************************************************************************)
Fetching == caller = "fetch_all_data"

\* C14: fetch_all_data never changes the caller's base_payload: after any number
\* of page requests it holds the keys and values it was passed with, and page
\* and limit appear only in the payload of the requests after the first.
C14_BasePayloadUnchanged ==
    Fetching =>
        /\ base_payload = BasePayload
        /\ DOMAIN base_payload \cap {"page", "limit"} = {}
        /\ \A i \in 2..Len(requests) : {"page", "limit"} \subseteq DOMAIN requests[i]

C14_Witness_TwoPagedRequests ==
    /\ Fetching
    /\ pc = "returned"
    /\ Len(requests) = 3
    /\ base_payload = BasePayload


Throttles == {i \in 1..Len(log) : log[i].e = "throttle"}

\* C15: every page request after the first is preceded by exactly one throttle
\* delay, taken once the previous page is processed and before the first attempt
\* of the next request; the first request has none; the backoff delays of a
\* request come in addition to its throttle, never in its place.
C15_OneThrottlePerPageRequest ==
    Fetching =>
        /\ page = 0 => Throttles = {}
        /\ page > 0 =>
               /\ Throttles = {1}
               /\ Len(requests) = page + 1
               /\ Len(log) >= 2 => log[2] = [e |-> "post", attempt |-> 0]
        /\ \A i \in 1..Len(log) :
               (IsPost(log[i]) /\ log[i].attempt > 0) =>
                   log[i - 1] = [e |-> "backoff", d |-> 2 ^ (log[i].attempt - 1)]

C15_Witness_ThrottleThenBackoff ==
    /\ Fetching
    /\ page = 2
    /\ log = <<[e |-> "throttle"], [e |-> "post", attempt |-> 0],
               [e |-> "backoff", d |-> 1], [e |-> "post", attempt |-> 1]>>


\* the latest request was answered with a decoded body and the answer was processed
Processed == Fetching /\ answer.k = "ok" /\ pc \in {"loop", "returned", "raised"}

\* C16: if the body of the first response is an array, fetch_all_data issues
\* exactly one request and returns exactly the elements of that array, in order.
C16_ArrayFirstResponse ==
    (Processed /\ page = 0 /\ answer.body.t = "list") =>
        /\ pc = "returned"
        /\ Len(requests) = 1
        /\ result = answer.body

C16_Witness_FullArray ==
    /\ Processed
    /\ page = 0
    /\ answer.body.t = "list"
    /\ Len(answer.body.v) = MaxPageSize
    /\ page_size = 1
    /\ max_pages = MaxPages
    /\ pc = "returned"
    /\ result.v = <<JObj(1), JObj(2)>>


\* the records of a received body: those the extractor finds in it; the loop
\* takes none from a falsy body, the first request none from a null body
PageRecords(body, pg) ==
    IF (pg = 0 /\ body.t = "null") \/ (pg > 0 /\ ~Truthy(body))
    THEN <<>>
    ELSE _extract_data_from_response(body).value

\* C17: in the page loop a page with no records or with fewer than page_size
\* records is the last one requested; the records of a short page are included;
\* the returned list is the concatenation, in request order, of the records
\* extracted from every page received.
C17_ShortPageEndsAndCounts ==
    [][(Fetching /\ pc = "mr_done" /\ ~mr.raised /\ pc' # "raised") =>
          /\ all_data' = all_data \o PageRecords(mr.value, page)
          /\ (page > 0 /\ Len(PageRecords(mr.value, page)) < page_size) =>
                 pc' = "returned"
          /\ pc' = "returned" => result' = JList(all_data')
          /\ requests' = requests]_vars

C17_Witness_ShortThirdPage ==
    /\ Fetching
    /\ pc = "returned"
    /\ stop = "short_page"
    /\ page = 2
    /\ page_size = 2
    /\ Len(result.v) = 5


Done == pc \in {"returned", "raised"}

\* C18: every call of fetch_all_data terminates, by returning or by failing,
\* after finitely many requests, whatever the server answers: at most
\* max_pages + 1 requests of at most `retries` POSTs each are made, and the call
\* always reaches its end.
C18_FetchTerminates ==
    /\ [](Fetching => (Len(requests) <= max_pages + 1 /\ NumPosts <= DefaultRetries))
    /\ Fetching ~> Done

C18_Witness_EveryPageRequested ==
    /\ Fetching
    /\ Done
    /\ max_pages = MaxPages
    /\ Len(requests) = MaxPages + 1
    /\ NumPosts = DefaultRetries


MoreKeys == {"hasMore", "has_more", "hasNext", "has_next"}

\* C19: after any page other than the first the loop goes on to a further page
\* only if that page's response is a mapping holding at least one of hasMore,
\* has_more, hasNext, has_next with a value other than false; full pages without
\* such a key, and arrays, end the call at the second request.
C19_ContinuesOnlyOnMoreKey ==
    (Processed /\ pc = "loop" /\ page >= 1) =>
        /\ answer.body.t = "map"
        /\ \E k \in MoreKeys \cap DOMAIN answer.body.v : answer.body.v[k] # JBool(FALSE)

C19_Witness_ContinuesAfterSecondRequest ==
    /\ Processed
    /\ pc = "loop"
    /\ page = 1
    /\ max_pages = MaxPages
    /\ answer.body.t = "map"
    /\ "hasMore" \in DOMAIN answer.body.v
    /\ answer.body.v["hasMore"] = JBool(TRUE)


\* C20: the first request of a call carries the base payload with no page and no
\* limit; the k-th request after it carries the base payload plus page = k and
\* limit = page_size, so the page indexes sent are 1, 2, 3, ... in order, with
\* none repeated and none skipped.
C20_PageIndexesConsecutive ==
    (Fetching /\ requests # <<>>) =>
        /\ requests[1] = BasePayload
        /\ DOMAIN requests[1] \cap {"page", "limit"} = {}
        /\ \A k \in 1..(Len(requests) - 1) :
               /\ DOMAIN requests[k + 1] = DOMAIN BasePayload \cup {"page", "limit"}
               /\ requests[k + 1].page = k
               /\ requests[k + 1].limit = page_size
               /\ requests[k + 1].targets = BasePayload.targets

C20_Witness_ThreeRequests ==
    /\ Fetching
    /\ Len(requests) = 3
    /\ page_size = 2
    /\ requests[2].page = 1
    /\ requests[3].page = 2
    /\ requests[3].limit = 2


\* the latest response is a full page that signals more data and reports T pages
FullPageOfTotal(T) ==
    /\ answer.body.t = "map"
    /\ DOMAIN answer.body.v = {"data", "hasMore", "totalPages"}
    /\ Len(answer.body.v["data"].v) >= page_size
    /\ answer.body.v["hasMore"] = JBool(TRUE)
    /\ answer.body.v["totalPages"] = JInt(T)

RequestRunning == Fetching /\ pc \in {"post", "backoff", "mr_done"}

\* C21: when every response is a full page that signals more data and reports a
\* total page count T with 1 <= T <= max_pages, the call stops right after the
\* request with page index T: a request's page index never exceeds the total
\* reported by the response before it, full pages before page T keep the loop
\* going, and the call ends at page T with T + 1 requests made.
C21_StopsAfterReportedTotal ==
    /\ (RequestRunning /\ page >= 1 /\ pagination_info.total_pages.t = "int"
            /\ pagination_info.total_pages.v >= 1) =>
           page <= pagination_info.total_pages.v
    /\ \A T \in 1..MaxPages :
           (Processed /\ T <= max_pages /\ FullPageOfTotal(T)) =>
               /\ page < T => pc = "loop"
               /\ page = T => (pc = "returned" /\ Len(requests) = T + 1
                                  /\ requests[Len(requests)].page = T)

C21_Witness_StopsAtSecondPage ==
    /\ Processed
    /\ max_pages = MaxPages
    /\ page = 2
    /\ FullPageOfTotal(2)
    /\ stop = "total_pages"
    /\ Len(requests) = 3
    /\ page_size = 1
    /\ result.v = <<JObj(1), JObj(1), JObj(1)>>

====
